---- MODULE Spec2Model ----
(***************************************************************************)
(* Verification model of the infinitree object layer:                      *)
(*   - object/write_balancer.rs  RoundRobinBalancer (channel of writers)   *)
(*   - crypto/yubikey_scheme.rs  YubikeyCR sealed header                   *)
(*   - object/reader.rs          AEADReader::read_chunk                    *)
(*   - object.rs                 Object cursor, io::Write/Read/Seek        *)
(* Each subsystem has its own specification over the shared variables.     *)
(***************************************************************************)
EXTENDS Integers, Sequences, FiniteSets, TLC

VARIABLES
    \* ---- RoundRobinBalancer (write_balancer.rs) ----
    channel,      \* the flume channel shared by enqueue/dequeue: Seq of writer ids
    pc,           \* per calling thread: position inside write_chunk / flush
    held,         \* per thread: the writer it has dequeued (0 = none)
    arg,          \* per thread: chunk passed to the write_chunk in progress (0 = none)
    result,       \* per thread: result of the inner writer call in progress
    lastRet,      \* the balancer call that returned last: operation and returned value
    iter,         \* per thread: loop counter of flush's `for _ in 0..self.writers`
    pending,      \* per writer: chunks accepted by the writer, not yet persisted
    persisted,    \* chunks persisted to the backend by some writer
    acked,        \* chunks whose balancer write_chunk returned Ok
    snapshot,     \* per thread: `acked` at the moment its flush was invoked
    dropped,      \* writers that were dropped (destroyed)
    nCalls,       \* number of balancer calls issued so far (chunks are named by it)
    flushLog,     \* the flush invoked with no other call running: its inner flushes
    inTurn,       \* every call so far was a write_chunk issued with no call running
    \* ---- YubikeyCR sealed header (yubikey_scheme.rs) ----
    keys,         \* per slot: the KeySource made by with_credentials
    aead,         \* the AEAD as an ideal cipher: every (key, nonce, text) sealed so far
    sealed,       \* the SealedHeader at rest: HEADER_SIZE bytes
    sealInfo,     \* how `sealed` was made: sealing key, device, root pointer
    tampered,     \* offset of the byte of `sealed` that was altered (-1: none)
    lastSeal,     \* outcome of the last seal_root call
    opened,       \* outcome of the last open_root call
    deviceCalls,  \* challenge_response_hmac calls made so far
    nSeal,        \* seal_root calls made so far
    nOpen,        \* open_root calls made so far
    nEarly,       \* seal_root calls that failed before the key derivation
    \* ---- AEADReader (object/reader.rs) ----
    store,        \* the backend: per object id the bytes persisted (<<>>: no object)
    ptrs,         \* per object id: the ChunkPointer a writer returned for its chunk
    flipped,      \* per object id: offset of the altered byte at rest (-1: none)
    target,       \* the caller's target buffer of the last read_chunk
    lastRead,     \* the last read_chunk call: its inputs and its outcome
    \* ---- Object (object.rs) ----
    cursor,       \* Object.cursor
    buffer,       \* Object.buffer: BLOCK_SIZE bytes
    objRes,       \* the last io::Write/Read/Seek call on the object and its result
    objId         \* Object.id

balVars == <<channel, pc, held, arg, result, lastRet, iter, pending, persisted, acked,
             snapshot,  dropped, nCalls, flushLog, inTurn>>

hdrVars == <<keys, aead, sealed, sealInfo, tampered, lastSeal, opened,
             deviceCalls, nSeal, nOpen, nEarly>>

rdVars == <<store, ptrs, flipped, target, lastRead>>

objVars == <<cursor, buffer, objRes, objId>>

vars == <<balVars, hdrVars, rdVars, objVars>>

\* ------------------------------------------------------------------------
\* Bounds of the model
\* ------------------------------------------------------------------------
NWriters == 2
NThreads == 3
MaxCalls == 3
NPasswords == 2
NDevices == 2
MaxHeaderCalls == 2
BLOCK_SIZE == 4
WordBits == 4
NObjects == 1

Writers == 1..NWriters
Threads == 1..NThreads

\* a Result: Ok(val) or Err(err); the value of Ok(()) is Unit
Unit == 0
NoResult == [ok |-> FALSE, val |-> 0, err |-> "none"]
Ok(v) == [ok |-> TRUE, val |-> v, err |-> "none"]
Err(e) == [ok |-> FALSE, val |-> 0, err |-> e]

\* no flush is running alone
NoLog == [by |-> 0, order |-> <<>>, done |-> <<>>]

\* ObjectError kinds an inner writer can report (object.rs ObjectError)
WriteErrors == {"Backend", "ChunkTooLarge"}
FlushErrors == {"Backend"}

Range(s) == {s[i] : i \in 1..Len(s)}

\* ------------------------------------------------------------------------
\* RoundRobinBalancer::new(writer, writers)
\* ------------------------------------------------------------------------
BalancerNew ==
    /\ channel = [i \in 1..NWriters |-> i]
    /\ pc = [t \in Threads |-> "idle"]
    /\ held = [t \in Threads |-> 0]
    /\ arg = [t \in Threads |-> 0]
    /\ result = [t \in Threads |-> NoResult]
    /\ lastRet = [op |-> "none", val |-> NoResult]
    /\ iter = [t \in Threads |-> 0]
    /\ pending = [w \in Writers |-> {}]
    /\ persisted = {}
    /\ acked = {}
    /\ snapshot = [t \in Threads |-> {}]
    /\ dropped = {}
    /\ nCalls = 0
    /\ flushLog = NoLog
    /\ inTurn = TRUE

\* ------------------------------------------------------------------------
\* The inner writer W (trait Writer).  write_chunk either fails or accepts the
\* chunk; flush either fails or persists every chunk the writer has accepted.
\* ------------------------------------------------------------------------
InnerWriteChunk(w, c, outcome) ==
    IF outcome \in WriteErrors
    THEN [pend |-> pending[w], pers |-> persisted, res |-> Err(outcome)]
    ELSE [pend |-> pending[w] \cup {c}, pers |-> persisted, res |-> Ok(c)]

InnerFlush(w, outcome) ==
    IF outcome \in FlushErrors
    THEN [pend |-> pending[w], pers |-> persisted, res |-> Err(outcome)]
    ELSE [pend |-> {}, pers |-> persisted \cup pending[w], res |-> Ok(Unit)]

\* a channel that hands out the newest message
Recv_Newest(ch) == [msg |-> ch[Len(ch)], rest |-> SubSeq(ch, 1, Len(ch) - 1)]

\* a channel that puts a message in front of the waiting ones
Send_Front(ch, w) == <<w>> \o ch

\* flume: recv() takes the oldest message; send() appends (bounded(writers))
Recv(ch) == [msg |-> Head(ch), rest |-> Tail(ch)]
Send(ch, w) == Append(ch, w)

\* ------------------------------------------------------------------------
\* RoundRobinBalancer::write_chunk
\* ------------------------------------------------------------------------
\* Idle threads hold no state of their own, so they are interchangeable: the
\* next call is issued by the idle thread with the least id.
NextCaller(t) == pc[t] = "idle" /\ \A u \in Threads : pc[u] = "idle" => t <= u

\* a thread invokes write_chunk(hash, data) on its clone of the balancer
WcCall(t) ==
    /\ UNCHANGED <<hdrVars, rdVars, objVars>>
    /\ flushLog' = NoLog
    /\ inTurn' = (inTurn /\ \A u \in Threads : pc[u] = "idle")
    /\ NextCaller(t)
    /\ nCalls < MaxCalls
    /\ nCalls' = nCalls + 1
    /\ arg' = [arg EXCEPT ![t] = nCalls + 1]
    /\ pc' = [pc EXCEPT ![t] = "wc_recv"]
    /\ UNCHANGED <<channel, held, result, lastRet, iter, pending, persisted, acked,
                   snapshot, dropped>>

\* mutant of WcRecv: the writer is handed out but stays in the channel (shared,
\* not leased)
WcRecv_Shared(t) ==
    /\ UNCHANGED <<hdrVars, rdVars, objVars>>
    /\ UNCHANGED <<flushLog, inTurn>>
    /\ pc[t] = "wc_recv"
    /\ channel # <<>>
    /\ held' = [held EXCEPT ![t] = Recv(channel).msg]
    /\ pc' = [pc EXCEPT ![t] = "wc_leased"]
    /\ UNCHANGED <<channel, arg, result, lastRet, iter, pending, persisted, acked,
                   snapshot, dropped, nCalls>>

\* let mut writer = self.dequeue.recv()   (blocks while the channel is empty)
WcRecv(t) ==
    /\ UNCHANGED <<hdrVars, rdVars, objVars>>
    /\ UNCHANGED <<flushLog, inTurn>>
    /\ pc[t] = "wc_recv"
    /\ channel # <<>>
    /\ held' = [held EXCEPT ![t] = Recv(channel).msg]
    /\ channel' = Recv(channel).rest
    /\ pc' = [pc EXCEPT ![t] = "wc_leased"]
    /\ UNCHANGED <<arg, result, lastRet, iter, pending, persisted, acked, snapshot,
                   dropped, nCalls>>

\* let result = writer.write_chunk(hash, data);
WcInner(t) ==
    /\ UNCHANGED <<hdrVars, rdVars, objVars>>
    /\ UNCHANGED <<flushLog, inTurn>>
    /\ pc[t] = "wc_leased"
    /\ \E outcome \in WriteErrors \cup {"ok"} :
         LET r == InnerWriteChunk(held[t], arg[t], outcome) IN
         /\ pending' = [pending EXCEPT ![held[t]] = r.pend]
         /\ persisted' = r.pers
         /\ result' = [result EXCEPT ![t] = r.res]
    /\ pc' = [pc EXCEPT ![t] = "wc_called"]
    /\ UNCHANGED <<channel, held, arg, lastRet, iter, acked, snapshot,
                   dropped, nCalls>>

\* mutant of WcSend: `writer.write_chunk(hash, data)?` returns early on Err, so
\* the writer is re-enqueued only after a successful inner call
WcSend_OnlyOnOk(t) ==
    /\ UNCHANGED <<hdrVars, rdVars, objVars>>
    /\ UNCHANGED <<flushLog, inTurn>>
    /\ pc[t] = "wc_called"
    /\ Len(channel) < NWriters
    /\ channel' = IF result[t].ok THEN Send(channel, held[t]) ELSE channel
    /\ dropped' = IF result[t].ok THEN dropped ELSE dropped \cup {held[t]}
    /\ lastRet' = [op |-> "write_chunk", val |-> result[t]]
    /\ acked' = IF result[t].ok THEN acked \cup {arg[t]} ELSE acked
    /\ held' = [held EXCEPT ![t] = 0]
    /\ arg' = [arg EXCEPT ![t] = 0]
    /\ result' = [result EXCEPT ![t] = NoResult]
    /\ pc' = [pc EXCEPT ![t] = "idle"]
    /\ UNCHANGED <<iter, pending, persisted, snapshot, nCalls>>

\* self.enqueue.send(writer)...?;  result
WcSend(t) ==
    /\ UNCHANGED <<hdrVars, rdVars, objVars>>
    /\ UNCHANGED <<flushLog, inTurn>>
    /\ pc[t] = "wc_called"
    /\ Len(channel) < NWriters
    /\ channel' = Send(channel, held[t])
    /\ lastRet' = [op |-> "write_chunk", val |-> result[t]]
    /\ acked' = IF result[t].ok THEN acked \cup {arg[t]} ELSE acked
    /\ held' = [held EXCEPT ![t] = 0]
    /\ arg' = [arg EXCEPT ![t] = 0]
    /\ result' = [result EXCEPT ![t] = NoResult]
    /\ pc' = [pc EXCEPT ![t] = "idle"]
    /\ UNCHANGED <<iter, pending, persisted, snapshot, dropped,
                   nCalls>>

\* ------------------------------------------------------------------------
\* RoundRobinBalancer::flush
\* ------------------------------------------------------------------------
\* a thread invokes flush() on its clone of the balancer
FlCall(t) ==
    /\ UNCHANGED <<hdrVars, rdVars, objVars>>
    /\ flushLog' = IF \A u \in Threads : pc[u] = "idle"
                   THEN [by |-> t, order |-> channel, done |-> <<>>]
                   ELSE NoLog
    /\ inTurn' = FALSE
    /\ NextCaller(t)
    /\ nCalls < MaxCalls
    /\ nCalls' = nCalls + 1
    /\ iter' = [iter EXCEPT ![t] = 0]
    /\ snapshot' = [snapshot EXCEPT ![t] = acked]
    /\ pc' = [pc EXCEPT ![t] = "fl_recv"]
    /\ UNCHANGED <<channel, held, arg, result, lastRet, pending, persisted, acked,
                   dropped>>

\* for _ in 0..self.writers { let mut writer = self.dequeue.recv()...
FlRecv(t) ==
    /\ UNCHANGED <<hdrVars, rdVars, objVars>>
    /\ UNCHANGED <<flushLog, inTurn>>
    /\ pc[t] = "fl_recv"
    /\ iter[t] < NWriters
    /\ channel # <<>>
    /\ held' = [held EXCEPT ![t] = Recv(channel).msg]
    /\ channel' = Recv(channel).rest
    /\ pc' = [pc EXCEPT ![t] = "fl_leased"]
    /\ UNCHANGED <<arg, result, lastRet, iter, pending, persisted, acked, snapshot,
                   dropped, nCalls>>

\* writer.flush()   (the inner call itself)
FlInner(t) ==
    /\ UNCHANGED <<hdrVars, rdVars, objVars>>
    /\ flushLog' = IF flushLog.by = t
                   THEN [flushLog EXCEPT !.done = Append(@, held[t])]
                   ELSE flushLog
    /\ UNCHANGED inTurn
    /\ pc[t] = "fl_leased"
    /\ \E outcome \in FlushErrors \cup {"ok"} :
         LET r == InnerFlush(held[t], outcome) IN
         /\ pending' = [pending EXCEPT ![held[t]] = r.pend]
         /\ persisted' = r.pers
         /\ result' = [result EXCEPT ![t] = r.res]
    /\ pc' = [pc EXCEPT ![t] = "fl_called"]
    /\ UNCHANGED <<channel, held, arg, lastRet, iter, acked, snapshot, dropped,
                   nCalls>>

\* `writer.flush()?` : on Err the function returns at once and the local
\* `writer` goes out of scope (it is dropped); on Ok the writer is sent back
\* and the loop goes on
FlSend(t) ==
    /\ UNCHANGED <<hdrVars, rdVars, objVars>>
    /\ UNCHANGED <<flushLog, inTurn>>
    /\ pc[t] = "fl_called"
    /\ IF result[t].ok
       THEN /\ Len(channel) < NWriters
            /\ channel' = Send(channel, held[t])
            /\ iter' = [iter EXCEPT ![t] = @ + 1]
            /\ pc' = [pc EXCEPT ![t] = "fl_recv"]
            /\ UNCHANGED <<lastRet, dropped, snapshot>>
       ELSE /\ dropped' = dropped \cup {held[t]}
            /\ lastRet' = [op |-> "flush", val |-> result[t]]
            /\ pc' = [pc EXCEPT ![t] = "idle"]
            /\ iter' = [iter EXCEPT ![t] = 0]
            /\ snapshot' = [snapshot EXCEPT ![t] = {}]
                    /\ UNCHANGED channel
    /\ held' = [held EXCEPT ![t] = 0]
    /\ result' = [result EXCEPT ![t] = NoResult]
    /\ UNCHANGED <<arg, pending, persisted, acked, nCalls>>

\* Ok(())  after the loop
FlReturn(t) ==
    /\ UNCHANGED <<hdrVars, rdVars, objVars>>
    /\ UNCHANGED <<flushLog, inTurn>>
    /\ pc[t] = "fl_recv"
    /\ iter[t] = NWriters
    /\ lastRet' = [op |-> "flush", val |-> Ok(Unit)]
    /\ pc' = [pc EXCEPT ![t] = "idle"]
    /\ iter' = [iter EXCEPT ![t] = 0]
    /\ snapshot' = [snapshot EXCEPT ![t] = {}]
    /\ UNCHANGED <<channel, held, arg, result, pending, persisted, acked,
                   dropped, nCalls>>

\* ------------------------------------------------------------------------
\* Byte buffers.  A buffer is a sequence of bytes; offset o is element o + 1.
\* ------------------------------------------------------------------------
\* [b; n]
Bytes(n, b) == [i \in 1..n |-> b]
\* &buf[from..to]
Slice(buf, from, to) == SubSeq(buf, from + 1, to)
\* buf[from..from + src.len()].copy_from_slice(src)
CopyTo(buf, from, src) ==
    SubSeq(buf, 1, from) \o src \o SubSeq(buf, from + Len(src) + 1, Len(buf))
\* one bit of the byte at offset off is flipped
FlipBit(buf, off) ==
    [buf EXCEPT ![off + 1] = IF @ % 2 = 0 THEN @ + 1 ELSE @ - 1]

\* ------------------------------------------------------------------------
\* yubikey_scheme.rs: sizes and offsets
\* ------------------------------------------------------------------------
HEADER_SIZE == 512
TAG_SIZE == 16
NONCE_SIZE == 12
CHALLENGE_SIZE == 64
KEY_SIZE == 32
ROOT_PTR_SIZE == 88
HEADER_PAYLOAD == HEADER_SIZE - TAG_SIZE - NONCE_SIZE - CHALLENGE_SIZE
HEADER_CYPHERTEXT == HEADER_SIZE - NONCE_SIZE - CHALLENGE_SIZE

\* ------------------------------------------------------------------------
\* Inputs of the header operations
\* ------------------------------------------------------------------------
Passwords == 1..NPasswords
Devices == 1..NDevices
KeySlots == {1, 2}
\* SystemRandom: the nonce and the challenge of the n-th seal_header call; no
\* two calls draw the same
RandomNonce(n) == Bytes(NONCE_SIZE, 50 + n)
RandomChallenge(n) == Bytes(CHALLENGE_SIZE, 100 + n)
\* generate_key(&random): the k-th call; no two calls return the same key
generate_key(k) == Bytes(KEY_SIZE, 10 + k)
\* RawChunkPointer values (the first is RawChunkPointer::default())
RootPtrs == {Bytes(ROOT_PTR_SIZE, 0), Bytes(ROOT_PTR_SIZE, 7)}
\* offsets at which the header at rest may be altered: both ends of each region
TamperOffsets ==
    {0, HEADER_PAYLOAD - 1, HEADER_PAYLOAD, HEADER_CYPHERTEXT - 1,
     HEADER_CYPHERTEXT, HEADER_CYPHERTEXT + NONCE_SIZE - 1,
     HEADER_CYPHERTEXT + NONCE_SIZE, HEADER_SIZE - 1}

\* ------------------------------------------------------------------------
\* Keys and key sources
\* ------------------------------------------------------------------------
NoRawKey == [user |-> 0, password |-> 0]
NoSymmetric == [master_key |-> NoRawKey, convergence_key |-> <<>>]
NoKeySource == [present |-> FALSE, inner |-> NoSymmetric, master_key |-> NoRawKey,
                mode |-> 0]
NoResponse == [secret |-> 0, challenge |-> <<>>]
NoHeaderKey == [master |-> NoRawKey, resp |-> NoResponse]

\* Mode::Symmetric as the byte stored in the header, and Mode::try_from
ModeSymmetric == 0
ModeTryFrom(b) == IF b = ModeSymmetric THEN [ok |-> TRUE, mode |-> b]
                  ELSE [ok |-> FALSE, mode |-> b]

\* derive_argon2(salt, username, password): a key derivation without collisions
derive_argon2(user, password) == [user |-> user, password |-> password]

\* Symmetric::expose_convergence_key
SymmetricExposeConvergenceKey(sym) == sym.convergence_key

\* Mode::keysource(master_key, convergence_key)
ModeKeysource(mode, master_key, convergence_key) ==
    [master_key |-> master_key, convergence_key |-> convergence_key]

\* YubikeyCR::expose_convergence_key: self.inner.expose_convergence_key()
expose_convergence_key(ks) == SymmetricExposeConvergenceKey(ks.inner)

\* YubikeyCR::with_credentials(username, password, ykconfig)
with_credentials(user, password, generated) ==
    LET master_key == derive_argon2(user, password) IN
    [present |-> TRUE,
     inner |-> [master_key |-> master_key, convergence_key |-> generated],
     master_key |-> master_key,
     mode |-> ModeSymmetric]

\* Yubico::challenge_response_hmac(&challenge, config): HMAC-SHA1 of the challenge
\* under the secret of the token that is plugged in; an error when none answers
challenge_response_hmac(challenge, dev) ==
    IF dev = 0 THEN [ok |-> FALSE, resp |-> NoResponse]
    ELSE [ok |-> TRUE, resp |-> [secret |-> dev, challenge |-> challenge]]

\* From<ring::error::Unspecified> for CryptoError
CryptoErrorFrom == "AeadFailed"

\* header_key asking the device a second time when it has an answer
header_key_AsksTwice(master_key, challenge, dev) ==
    LET r == challenge_response_hmac(challenge, dev) IN
    IF ~r.ok
    THEN [ok |-> FALSE, err |-> "Fatal", key |-> NoHeaderKey, calls |-> 1]
    ELSE [ok |-> TRUE, err |-> "none",
          key |-> [master |-> master_key, resp |-> r.resp], calls |-> 2]

\* header_key with a device error swallowed: the key is derived from an empty
\* response instead
header_key_DefaultOnError(master_key, challenge, dev) ==
    LET r == challenge_response_hmac(challenge, dev) IN
    [ok |-> TRUE, err |-> "none",
     key |-> [master |-> master_key, resp |-> r.resp], calls |-> 1]

\* header_key(master_key, challenge, config):
\* blake3_kdf(ctx, master_key || yk_hmac_response(challenge)); calls counts the
\* device calls it made
header_key(master_key, challenge, dev) ==
    LET r == challenge_response_hmac(challenge, dev) IN
    IF ~r.ok
    THEN [ok |-> FALSE, err |-> "Fatal", key |-> NoHeaderKey, calls |-> 1]
    ELSE [ok |-> TRUE, err |-> "none",
          key |-> [master |-> master_key, resp |-> r.resp], calls |-> 1]

\* ------------------------------------------------------------------------
\* get_aead(key) as an ideal cipher.  `aead` lists what was sealed; a text
\* sealed under a new (key, nonce, text) gets bytes no other sealing has.
\* ------------------------------------------------------------------------
\* the bytes the id-th sealing produces
Cypher(id, text) == [i \in 1..Len(text) |-> text[i] + 256 * id]
Tag(id) == Bytes(TAG_SIZE, id)

\* aead.seal_in_place_separate_tag(nonce, Aad::empty(), &mut text)
seal_in_place_separate_tag(table, key, nonce, text) ==
    LET e == [key |-> key, nonce |-> nonce, text |-> text]
        hit == {i \in 1..Len(table) : table[i] = e}
        id == IF hit # {} THEN CHOOSE i \in hit : TRUE ELSE Len(table) + 1
    IN [cypher |-> Cypher(id, text), tag |-> Tag(id),
        table |-> IF hit # {} THEN table ELSE Append(table, e)]

\* aead.open_in_place(nonce, Aad::empty(), &mut cypher_and_tag)
open_in_place(table, key, nonce, cypher_and_tag) ==
    LET n == Len(cypher_and_tag) - TAG_SIZE
        hit == {i \in 1..Len(table) :
                  /\ table[i].key = key
                  /\ table[i].nonce = nonce
                  /\ Cypher(i, table[i].text) = SubSeq(cypher_and_tag, 1, n)
                  /\ Tag(i) = SubSeq(cypher_and_tag, n + 1, n + TAG_SIZE)}
    IN IF hit = {} THEN [ok |-> FALSE, text |-> <<>>]
       ELSE [ok |-> TRUE, text |-> table[CHOOSE i \in hit : TRUE].text]

\* Mode::encode_root_to(&mut output, &header): root_ptr, mode byte, convergence
\* key from offset 0; returns the position after them
encode_root_to(mode, output, header) ==
    LET o1 == CopyTo(output, 0, header.root_ptr)
        o2 == CopyTo(o1, ROOT_PTR_SIZE, <<mode>>)
        o3 == CopyTo(o2, ROOT_PTR_SIZE + 1, expose_convergence_key(header.key))
    IN [output |-> o3, pos |-> ROOT_PTR_SIZE + 1 + KEY_SIZE]

\* RawChunkPointer::parse(&header)
RawChunkPointerParse(header) ==
    [pos |-> ROOT_PTR_SIZE, root_ptr |-> Slice(header, 0, ROOT_PTR_SIZE)]

\* seal_header storing the challenge before the nonce
seal_header_NonceLast(table, master_key, mode, header, dev, rngOk, nonce, challenge) ==
    LET output0 == Bytes(HEADER_SIZE, 0)
        enc == encode_root_to(mode, output0, header)
        output1 == CopyTo(enc.output, HEADER_CYPHERTEXT + CHALLENGE_SIZE, nonce)
        hk == header_key(master_key, challenge, dev)
        s == seal_in_place_separate_tag(table, hk.key, nonce,
                                        Slice(output1, 0, HEADER_PAYLOAD))
        output2 == CopyTo(output1, 0, s.cypher)
        output3 == CopyTo(output2, HEADER_PAYLOAD, s.tag)
        output4 == CopyTo(output3, HEADER_CYPHERTEXT, challenge)
    IN IF ~rngOk
       THEN [ok |-> FALSE, err |-> CryptoErrorFrom, output |-> <<>>, table |-> table,
             calls |-> 0]
       ELSE IF ~hk.ok
       THEN [ok |-> FALSE, err |-> hk.err, output |-> <<>>, table |-> table,
             calls |-> hk.calls]
       ELSE [ok |-> TRUE, err |-> "none", output |-> output4, table |-> s.table,
             calls |-> hk.calls]

\* ------------------------------------------------------------------------
\* seal_header(master_key, mode, header, ykconfig)
\* ------------------------------------------------------------------------
seal_header(table, master_key, mode, header, dev, rngOk, nonce, challenge) ==
    LET output0 == Bytes(HEADER_SIZE, 0)
        enc == encode_root_to(mode, output0, header)
        output1 == CopyTo(enc.output, HEADER_CYPHERTEXT, nonce)
        hk == header_key(master_key, challenge, dev)
        s == seal_in_place_separate_tag(table, hk.key, nonce,
                                        Slice(output1, 0, HEADER_PAYLOAD))
        output2 == CopyTo(output1, 0, s.cypher)
        output3 == CopyTo(output2, HEADER_PAYLOAD, s.tag)
        output4 == CopyTo(output3, HEADER_CYPHERTEXT + NONCE_SIZE, challenge)
    IN IF ~rngOk
       THEN [ok |-> FALSE, err |-> CryptoErrorFrom, output |-> <<>>, table |-> table,
             calls |-> 0]
       ELSE IF ~hk.ok
       THEN [ok |-> FALSE, err |-> hk.err, output |-> <<>>, table |-> table,
             calls |-> hk.calls]
       ELSE [ok |-> TRUE, err |-> "none", output |-> output4, table |-> s.table,
             calls |-> hk.calls]

\* open_header reading the nonce from where the tag is stored
open_header_NonceFromTag(table, master_key, sealedHeader, dev) ==
    LET challenge == Slice(sealedHeader, HEADER_CYPHERTEXT + NONCE_SIZE, HEADER_SIZE)
        hk == header_key(master_key, challenge, dev)
        nonce == Slice(sealedHeader, HEADER_PAYLOAD, HEADER_PAYLOAD + NONCE_SIZE)
        o == open_in_place(table, hk.key, nonce,
                           Slice(sealedHeader, 0, HEADER_CYPHERTEXT))
        header == o.text
        parsed == RawChunkPointerParse(header)
        modeByte == header[parsed.pos + 1]
        convergence_key == Slice(header, parsed.pos + 1, parsed.pos + 1 + KEY_SIZE)
        mode == ModeTryFrom(modeByte)
        inner == ModeKeysource(mode.mode, master_key, convergence_key)
        key == [present |-> TRUE, inner |-> inner, master_key |-> master_key,
                mode |-> mode.mode]
    IN IF ~hk.ok
       THEN [status |-> hk.err, root_ptr |-> <<>>, key |-> NoKeySource,
             calls |-> hk.calls]
       ELSE IF ~o.ok
       THEN [status |-> CryptoErrorFrom, root_ptr |-> <<>>, key |-> NoKeySource,
             calls |-> hk.calls]
       ELSE IF ~mode.ok
       THEN [status |-> "InvalidHeader", root_ptr |-> <<>>, key |-> NoKeySource,
             calls |-> hk.calls]
       ELSE [status |-> "Ok", root_ptr |-> parsed.root_ptr, key |-> key,
             calls |-> hk.calls]

\* ------------------------------------------------------------------------
\* open_header(master_key, sealed, ykconfig)
\* ------------------------------------------------------------------------
open_header(table, master_key, sealedHeader, dev) ==
    LET challenge == Slice(sealedHeader, HEADER_CYPHERTEXT + NONCE_SIZE, HEADER_SIZE)
        hk == header_key(master_key, challenge, dev)
        nonce == Slice(sealedHeader, HEADER_CYPHERTEXT, HEADER_CYPHERTEXT + NONCE_SIZE)
        o == open_in_place(table, hk.key, nonce,
                           Slice(sealedHeader, 0, HEADER_CYPHERTEXT))
        header == o.text
        parsed == RawChunkPointerParse(header)
        modeByte == header[parsed.pos + 1]
        convergence_key == Slice(header, parsed.pos + 1, parsed.pos + 1 + KEY_SIZE)
        mode == ModeTryFrom(modeByte)
        inner == ModeKeysource(mode.mode, master_key, convergence_key)
        key == [present |-> TRUE, inner |-> inner, master_key |-> master_key,
                mode |-> mode.mode]
    IN IF ~hk.ok
       THEN [status |-> hk.err, root_ptr |-> <<>>, key |-> NoKeySource,
             calls |-> hk.calls]
       ELSE IF ~o.ok
       THEN [status |-> CryptoErrorFrom, root_ptr |-> <<>>, key |-> NoKeySource,
             calls |-> hk.calls]
       ELSE IF ~mode.ok
       THEN [status |-> "InvalidHeader", root_ptr |-> <<>>, key |-> NoKeySource,
             calls |-> hk.calls]
       ELSE [status |-> "Ok", root_ptr |-> parsed.root_ptr, key |-> key,
             calls |-> hk.calls]

\* ------------------------------------------------------------------------
\* State of the header operations.  The two key sources are constructed with
\* YubikeyCR::with_credentials("user", password, ykconfig), one per slot: the
\* first with password 1, the second with any password (the same or another).
\* ------------------------------------------------------------------------
NoSealInfo == [valid |-> FALSE, sealer |-> 0, dev |-> 0, root_ptr |-> <<>>]
NoOpened == [status |-> "none", root_ptr |-> <<>>, key |-> NoKeySource,
             opener |-> 0, dev |-> 0, intact |-> FALSE]

HeaderInit ==
    /\ \E password \in Passwords :
         keys = [k \in KeySlots |->
                   with_credentials(1, IF k = 1 THEN 1 ELSE password, generate_key(k))]
    /\ aead = <<>>
    /\ sealed = <<>>
    /\ sealInfo = NoSealInfo
    /\ tampered = -1
    /\ lastSeal = [status |-> "none", dev |-> 0, calls |-> 0, produced |-> FALSE]
    /\ opened = NoOpened
    /\ deviceCalls = 0
    /\ nSeal = 0
    /\ nOpen = 0
    /\ nEarly = 0

\* the token that answers a call: one of the devices, or 0 when the token is
\* absent, reports an error or is not touched in time
Answering == {0} \cup Devices

\* CryptoScheme::seal_root(&self, header) with header.key = self
SealRoot(k, root_ptr, device) ==
    /\ nSeal + nOpen < MaxHeaderCalls
    /\ \E rngOk \in BOOLEAN :
         LET self == keys[k]
             draw == nSeal + 1
             header == [root_ptr |-> root_ptr, key |-> self]
             r == seal_header(aead, self.master_key, self.mode, header,
                              device, rngOk, RandomNonce(draw), RandomChallenge(draw))
         IN /\ aead' = r.table
            /\ sealed' = IF r.ok THEN r.output ELSE sealed
            /\ sealInfo' = IF r.ok
                           THEN [valid |-> TRUE, sealer |-> k, dev |-> device,
                                 root_ptr |-> root_ptr]
                           ELSE sealInfo
            /\ tampered' = IF r.ok THEN -1 ELSE tampered
            /\ opened' = IF r.ok THEN NoOpened ELSE opened
            /\ lastSeal' = [status |-> IF r.ok THEN "Ok" ELSE r.err, dev |-> device,
                            calls |-> r.calls, produced |-> Len(r.output) > 0]
            /\ deviceCalls' = deviceCalls + r.calls
            /\ nEarly' = IF rngOk THEN nEarly ELSE nEarly + 1
    /\ nSeal' = nSeal + 1
    /\ UNCHANGED <<balVars, rdVars, objVars>>
    /\ UNCHANGED <<keys, nOpen>>

\* one bit of the header at rest is flipped
Tamper(off) ==
    /\ sealInfo.valid
    /\ tampered = -1
    /\ sealed' = FlipBit(sealed, off)
    /\ tampered' = off
    /\ UNCHANGED <<balVars, rdVars, objVars>>
    /\ UNCHANGED <<keys, aead, sealInfo, lastSeal, opened,
                   deviceCalls, nSeal, nOpen, nEarly>>

\* CryptoScheme::open_root(self, header)
OpenRoot(k, device) ==
    /\ sealInfo.valid
    /\ nSeal + nOpen < MaxHeaderCalls
    /\ LET self == keys[k]
           r == open_header(aead, self.master_key, sealed, device)
       IN
         /\ opened' = [status |-> r.status, root_ptr |-> r.root_ptr,
                       key |-> r.key,
                       opener |-> k, dev |-> device, intact |-> (tampered = -1)]
         /\ deviceCalls' = deviceCalls + r.calls
    /\ nOpen' = nOpen + 1
    /\ UNCHANGED <<balVars, rdVars, objVars>>
    /\ UNCHANGED <<keys, aead, sealed, sealInfo, tampered, lastSeal, nSeal, nEarly>>

\* the other CryptoScheme methods of YubikeyCR, each `self.inner.<method>()`
KeySourceOps ==
    {"root_object_id", "chunk_key", "index_key", "storage_key",
     "expose_convergence_key"}

\* self.inner.<method>(): a method of Symmetric; calls counts its device calls
InnerOp(ks, op) == [op |-> op, calls |-> 0]

\* any of the other CryptoScheme methods, called on the key source in slot k
KeySourceOp(k) ==
    /\ deviceCalls' \in {deviceCalls + InnerOp(keys[k], op).calls : op \in KeySourceOps}
    /\ UNCHANGED <<balVars, rdVars, objVars>>
    /\ UNCHANGED <<keys, aead, sealed, sealInfo, tampered, lastSeal, opened,
                   nSeal, nOpen, nEarly>>

HeaderNext ==
    \/ \E k \in KeySlots, root_ptr \in RootPtrs, d \in Answering : SealRoot(k, root_ptr, d)
    \/ \E off \in TamperOffsets : Tamper(off)
    \/ \E k \in KeySlots, d \in Answering : OpenRoot(k, d)
    \/ \E k \in KeySlots : KeySourceOp(k)

\* the header operations before any call, with both key sources given the
\* same password
HeaderIdle ==
    /\ HeaderInit
    /\ keys[2].master_key = keys[1].master_key

\* ------------------------------------------------------------------------
\* Object<T>: a block of BLOCK_SIZE bytes with a cursor (object.rs)
\* ------------------------------------------------------------------------
\* byte values the callers write
Data == {1, 2}

\* sequences over S of length 0..n
SeqsUpTo(S, n) == UNION {[1..k -> S] : k \in 0..n}

\* i64 and u64 at the model's word width
I_MAX == 2 ^ (WordBits - 1) - 1
I_MIN == -(2 ^ (WordBits - 1))
U_MAX == 2 ^ WordBits - 1
\* two's complement wrap of a sum that left the range
Wrap(x) == ((x - I_MIN) % (2 ^ WordBits)) + I_MIN

\* the builds: overflow checks on (panic on overflow) or off (wrap)
Builds == {"debug", "release"}

NoObjRes == [op |-> "none", status |-> "none", n |-> 0, out |-> <<>>]

\* ObjectId::default()
ObjectIdDefault == 0

\* Object::new(buffer) with a zeroed BlockBuffer
ObjectNew ==
    /\ cursor = 0
    /\ buffer = Bytes(BLOCK_SIZE, 0)
    /\ objRes = NoObjRes
    /\ objId = ObjectIdDefault

\* Object::capacity
capacity == BLOCK_SIZE

\* write that copies to the head of the buffer, as write_head does
write_AtHead(cur, inner, buf) ==
    LET len == Len(buf)
    IN IF cur + len > Len(inner)
       THEN [cursor |-> cur, buffer |-> inner, status |-> "panic", n |-> 0]
       ELSE [cursor |-> cur + len, buffer |-> CopyTo(inner, 0, buf),
             status |-> "Ok", n |-> len]

\* io::Write::write(&mut self, buf): the slice index panics when ofs + len is
\* past the end of the buffer
write(cur, inner, buf) ==
    LET ofs == cur
        len == Len(buf)
    IN IF ofs + len > Len(inner)
       THEN [cursor |-> cur, buffer |-> inner, status |-> "panic", n |-> 0]
       ELSE [cursor |-> cur + len, buffer |-> CopyTo(inner, ofs, buf),
             status |-> "Ok", n |-> len]

\* read that hands out what is left when the request passes the end
read_Partial(cur, inner, n) ==
    LET end == IF n + cur > Len(inner) THEN Len(inner) ELSE n + cur IN
    [cursor |-> end, status |-> "Ok", n |-> end - cur, out |-> Slice(inner, cur, end)]

\* io::Read::read(&mut self, buf), buf of length n
read(cur, inner, n) ==
    LET end == n + cur IN
    IF end > Len(inner)
    THEN [cursor |-> cur, status |-> "UnexpectedEof", n |-> 0, out |-> <<>>]
    ELSE [cursor |-> end, status |-> "Ok", n |-> n, out |-> Slice(inner, cur, end)]

\* io::SeekFrom values: Start takes a u64, End and Current an i64
\* (the offsets around the block, and the ends of the integer range)
SeekFrom ==
    [kind : {"Start"}, n : 0..(BLOCK_SIZE + 1) \cup {U_MAX}]
        \cup [kind : {"End", "Current"},
              n : (-(BLOCK_SIZE + 1))..(BLOCK_SIZE + 1) \cup {I_MIN, I_MAX}]

\* the buffers handed to write: short ones, and one longer than the block
WriteBufs == SeqsUpTo(Data, 2) \cup {Bytes(BLOCK_SIZE + 1, 1)}

\* io::Seek::seek taking End(e) as an offset from the start
seek_EndIsStart(cur, pos, build) ==
    LET invalid == [cursor |-> cur, status |-> "InvalidInput", n |-> 0]
        p == IF pos.kind = "Current" THEN cur + pos.n ELSE pos.n
    IN IF p < 0 \/ p > capacity THEN invalid
       ELSE [cursor |-> p, status |-> "Ok", n |-> p]

\* io::Seek::seek with every range check dropped
seek_Unchecked(cur, pos, build) ==
    LET p == CASE pos.kind = "Start" -> pos.n
               [] pos.kind = "End" -> capacity - pos.n
               [] OTHER -> cur + pos.n
    IN [cursor |-> p, status |-> "Ok", n |-> p]

\* io::Seek::seek(&mut self, pos)
seek(cur, pos, build) ==
    LET umax == capacity
        imax == capacity
        invalid == [cursor |-> cur, status |-> "InvalidInput", n |-> 0]
        sum == cur + pos.n
        new_pos == Wrap(sum)
    IN CASE pos.kind = "Start" ->
              IF pos.n > umax THEN invalid
              ELSE [cursor |-> pos.n, status |-> "Ok", n |-> pos.n]
         [] pos.kind = "End" ->
              IF pos.n < 0 THEN invalid
              ELSE IF pos.n > imax THEN invalid
              ELSE [cursor |-> capacity - pos.n, status |-> "Ok",
                    n |-> capacity - pos.n]
         [] OTHER ->
              IF (sum > I_MAX \/ sum < I_MIN) /\ build = "debug"
              THEN [cursor |-> cur, status |-> "panic", n |-> 0]
              ELSE IF new_pos < 0 THEN invalid
              ELSE IF new_pos > imax THEN invalid
              ELSE [cursor |-> new_pos, status |-> "Ok", n |-> new_pos]

\* what Random::fill can put into a byte
RandomBytes == {8, 9}

\* finalize that fills the whole block
finalize_WholeBlock(cur, inner, fill) ==
    CopyTo(inner, 0, Bytes(cur, 9) \o fill)

\* Object::finalize(&mut self, random): random.fill(&mut buffer[cursor..]),
\* fill being the bytes drawn
finalize(cur, inner, fill) ==
    CopyTo(inner, cur, fill)

ObjectWrite(buf) ==
    /\ LET r == write(cursor, buffer, buf) IN
         /\ cursor' = r.cursor
         /\ buffer' = r.buffer
         /\ objRes' = [op |-> "write", status |-> r.status, n |-> r.n, out |-> <<>>]
    /\ UNCHANGED objId
    /\ UNCHANGED <<balVars, hdrVars, rdVars>>

ObjectRead(n) ==
    /\ LET r == read(cursor, buffer, n) IN
         /\ cursor' = r.cursor
         /\ objRes' = [op |-> "read", status |-> r.status, n |-> r.n, out |-> r.out]
    /\ UNCHANGED <<buffer, objId>>
    /\ UNCHANGED <<balVars, hdrVars, rdVars>>

ObjectSeek(pos, build) ==
    /\ LET r == seek(cursor, pos, build) IN
         /\ cursor' = r.cursor
         /\ objRes' = [op |-> "seek", status |-> r.status, n |-> r.n, out |-> <<>>]
    /\ UNCHANGED <<buffer, objId>>
    /\ UNCHANGED <<balVars, hdrVars, rdVars>>

ObjectFinalize(fill) ==
    /\ Len(fill) = Len(buffer) - cursor
    /\ buffer' = finalize(cursor, buffer, fill)
    /\ objRes' = [op |-> "finalize", status |-> "Ok", n |-> 0, out |-> <<>>]
    /\ UNCHANGED <<cursor, objId>>
    /\ UNCHANGED <<balVars, hdrVars, rdVars>>

ObjectNext ==
    \/ \E buf \in WriteBufs : ObjectWrite(buf)
    \/ \E n \in 0..(BLOCK_SIZE + 1) : ObjectRead(n)
    \/ \E pos \in SeekFrom, build \in Builds : ObjectSeek(pos, build)
    \/ \E fill \in SeqsUpTo(RandomBytes, BLOCK_SIZE) : ObjectFinalize(fill)

\* ------------------------------------------------------------------------
\* AEADReader::read_chunk (object/reader.rs) over a backend of objects
\* ------------------------------------------------------------------------
ObjectIds == 1..NObjects
\* the chunks the writers are given
Chunks == {<<1>>, <<2, 3>>}
\* what a caller's target buffer holds before the call
Targets == {Bytes(2, 5), Bytes(1, 5)}

NoPtr == [object_id |-> 0, offs |-> 0, size |-> 0, tag |-> <<>>]
NoRead == [done |-> FALSE, object_id |-> 0, miss |-> FALSE, objFlip |-> -1,
           tagFlip |-> -1, before |-> <<>>, status |-> "none", out |-> <<>>,
           decrypts |-> 0, decompresses |-> 0]

ReaderInit ==
    /\ store = [id \in ObjectIds |-> <<>>]
    /\ ptrs = [id \in ObjectIds |-> NoPtr]
    /\ flipped = [id \in ObjectIds |-> -1]
    /\ target = <<>>
    /\ lastRead = NoRead

\* compress::compress: the data behind a length byte
compress(data) == <<Len(data)>> \o data

\* compress::decompress_into(buf, target): an error for input that is not a
\* compressed chunk or does not fit the target
decompress_into(buf, tgt) ==
    IF Len(buf) = 0 \/ buf[1] # Len(buf) - 1 \/ buf[1] > Len(tgt)
    THEN [ok |-> FALSE, size |-> 0, target |-> tgt]
    ELSE [ok |-> TRUE, size |-> buf[1], target |-> CopyTo(tgt, 0, Tail(buf))]

\* the chunk cipher: a keystream added to each byte, and a tag that no other
\* (object id, offset, cyphertext) has
Keystream == 100
EncryptBytes(text) == [i \in 1..Len(text) |-> (text[i] + Keystream) % 256]
DecryptBytes(cypher) == [i \in 1..Len(cypher) |-> (cypher[i] + 256 - Keystream) % 256]
ChunkTag(object_id, offs, cypher) == <<object_id, offs>> \o cypher

\* AEADWriter: the object a writer persists for one chunk stored at offs, the
\* rest of the block filled by finalize, and the pointer it returns
WriterObject(object_id, chunk, offs) ==
    LET cypher == EncryptBytes(compress(chunk)) IN
    [object |-> CopyTo(Bytes(BLOCK_SIZE, 77), offs, cypher),
     pointer |-> [object_id |-> object_id, offs |-> offs, size |-> Len(cypher),
                  tag |-> ChunkTag(object_id, offs, cypher)]]

\* Backend::read_object(id)
read_object(st, object_id) ==
    IF st[object_id] = <<>> THEN [ok |-> FALSE, object |-> <<>>]
    ELSE [ok |-> TRUE, object |-> st[object_id]]

\* ChunkKey::decrypt_chunk(target, source, source_id, chunk): returns the
\* decrypted bytes, not a Result.  When the tag does not verify it either
\* panics or hands back the bytes it decrypted, by onFail.
decrypt_chunk(source, source_id, chunk, onFail) ==
    LET cypher == Slice(source, chunk.offs, chunk.offs + chunk.size)
        verified == chunk.tag = ChunkTag(source_id, chunk.offs, cypher)
    IN IF verified \/ onFail = "unverified"
       THEN [panic |-> FALSE, verified |-> verified, buf |-> DecryptBytes(cypher)]
       ELSE [panic |-> TRUE, verified |-> FALSE, buf |-> <<>>]

DecryptFailures == {"panic", "unverified"}

\* the byte of a pointer's tag that is altered: none, the first, or the last
TagFlips == {-1, 0, 3}

\* read_chunk that goes on with an empty block when the backend has no object
read_chunk_IgnoresMiss(st, pointer, tgt, onFail) ==
    LET d == decrypt_chunk(Bytes(BLOCK_SIZE, 0), pointer.object_id, pointer, onFail)
        z == decompress_into(d.buf, tgt)
    IN IF d.panic
       THEN [status |-> "panic", out |-> <<>>, target |-> tgt,
             decrypts |-> 1, decompresses |-> 0]
       ELSE IF ~z.ok
       THEN [status |-> "Decompress", out |-> <<>>, target |-> z.target,
             decrypts |-> 1, decompresses |-> 1]
       ELSE [status |-> "Ok", out |-> Slice(z.target, 0, z.size), target |-> z.target,
             decrypts |-> 1, decompresses |-> 1]

\* AEADReader::read_chunk(&mut self, pointer, target)
read_chunk(st, pointer, tgt, onFail) ==
    LET object == read_object(st, pointer.object_id)
        d == decrypt_chunk(object.object, pointer.object_id, pointer, onFail)
        z == decompress_into(d.buf, tgt)
    IN IF ~object.ok
       THEN [status |-> "Backend", out |-> <<>>, target |-> tgt,
             decrypts |-> 0, decompresses |-> 0]
       ELSE IF d.panic
       THEN [status |-> "panic", out |-> <<>>, target |-> tgt,
             decrypts |-> 1, decompresses |-> 0]
       ELSE IF ~z.ok
       THEN [status |-> "Decompress", out |-> <<>>, target |-> z.target,
             decrypts |-> 1, decompresses |-> 1]
       ELSE [status |-> "Ok", out |-> Slice(z.target, 0, z.size), target |-> z.target,
             decrypts |-> 1, decompresses |-> 1]

\* a writer persists an object holding one chunk and returns its pointer
Persist(object_id, chunk, offs) ==
    /\ ptrs[object_id] = NoPtr
    /\ offs + Len(compress(chunk)) <= BLOCK_SIZE
    /\ LET w == WriterObject(object_id, chunk, offs) IN
         /\ store' = [store EXCEPT ![object_id] = w.object]
         /\ ptrs' = [ptrs EXCEPT ![object_id] = w.pointer]
    /\ UNCHANGED <<flipped, target, lastRead>>
    /\ UNCHANGED <<balVars, hdrVars, objVars>>

\* one bit of a persisted object is flipped at rest
TamperObject(object_id, off) ==
    /\ store[object_id] # <<>>
    /\ flipped[object_id] = -1
    /\ store' = [store EXCEPT ![object_id] = FlipBit(@, off)]
    /\ flipped' = [flipped EXCEPT ![object_id] = off]
    /\ UNCHANGED <<ptrs, target, lastRead>>
    /\ UNCHANGED <<balVars, hdrVars, objVars>>

\* Backend::delete_object: the object is gone while its pointer is still held
DeleteObject(object_id) ==
    /\ store[object_id] # <<>>
    /\ store' = [store EXCEPT ![object_id] = <<>>]
    /\ flipped' = [flipped EXCEPT ![object_id] = -1]
    /\ UNCHANGED <<ptrs, target, lastRead>>
    /\ UNCHANGED <<balVars, hdrVars, objVars>>

\* a caller reads the chunk of a pointer a writer returned; tagOff is the
\* byte of the pointer's tag that has a bit flipped (-1: none)
ReadChunk(object_id, tagOff, tgt, onFail) ==
    /\ ptrs[object_id] # NoPtr
    /\ tagOff < Len(ptrs[object_id].tag)
    /\ LET held_ptr == ptrs[object_id]
           pointer == IF tagOff = -1 THEN held_ptr
                      ELSE [held_ptr EXCEPT !.tag = FlipBit(@, tagOff)]
           r == read_chunk(store, pointer, tgt, onFail)
       IN
         /\ target' = r.target
         /\ lastRead' = [done |-> TRUE, object_id |-> object_id,
                         miss |-> (store[object_id] = <<>>),
                         objFlip |-> flipped[object_id], tagFlip |-> tagOff,
                         before |-> tgt, status |-> r.status, out |-> r.out,
                         decrypts |-> r.decrypts, decompresses |-> r.decompresses]
    /\ UNCHANGED <<store, ptrs, flipped>>
    /\ UNCHANGED <<balVars, hdrVars, objVars>>

ReaderNext ==
    \/ \E id \in ObjectIds, chunk \in Chunks, offs \in 0..1 : Persist(id, chunk, offs)
    \/ \E id \in ObjectIds, off \in 0..(BLOCK_SIZE - 1) : TamperObject(id, off)
    \/ \E id \in ObjectIds : DeleteObject(id)
    \/ \E id \in ObjectIds, tagOff \in TagFlips, tgt \in Targets, onFail \in DecryptFailures :
          ReadChunk(id, tagOff, tgt, onFail)

Init == BalancerNew /\ HeaderInit /\ ReaderInit /\ ObjectNew

\* the runs of the other subsystems: the header operations stay as constructed
\* with one password
QuietInit == BalancerNew /\ HeaderIdle /\ ReaderInit /\ ObjectNew

BalancerNext ==
    \E t \in Threads :
        \/ WcCall(t) \/ WcRecv(t) \/ WcInner(t) \/ WcSend(t)
        \/ FlCall(t) \/ FlRecv(t) \/ FlInner(t) \/ FlSend(t) \/ FlReturn(t)

BalancerSpec == QuietInit /\ [][BalancerNext]_vars

\* the steps of a call that has been issued: every thread that can take one
\* eventually does (no thread is suspended for good, and a receiver that can
\* be served again and again is served)
Progress(t) ==
    \/ WcRecv(t) \/ WcInner(t) \/ WcSend(t)
    \/ FlRecv(t) \/ FlInner(t) \/ FlSend(t) \/ FlReturn(t)

BalancerLiveSpec ==
    /\ QuietInit
    /\ [][BalancerNext]_vars
    /\ \A t \in Threads : SF_vars(Progress(t))

HeaderSpec == Init /\ [][HeaderNext]_vars

ReaderSpec == QuietInit /\ [][ReaderNext]_vars

ObjectSpec == QuietInit /\ [][ObjectNext]_vars

\* ------------------------------------------------------------------------
\* Properties of the balancer
\* ------------------------------------------------------------------------
Leased == {t \in Threads : held[t] # 0}

\* C1: the writers in the channel plus the writers leased to callers are always
\* NWriters; no writer is lost, also when an inner call returns an error.
C1_WritersConserved ==
    Len(channel) + Cardinality(Leased) = NWriters

\* C2: when a flush has run its loop to the end and returns Ok, every chunk
\* whose write_chunk had returned Ok before the flush was invoked has been
\* persisted by its writer.  (Stated for runs in which no writer was dropped,
\* so that a violation does not rest on the loss of a writer.)
C2_FlushPersistsPrior ==
    \A t \in Threads :
        (pc[t] = "fl_recv" /\ iter[t] = NWriters /\ dropped = {})
            => snapshot[t] \subseteq persisted

\* C3: the step that ends a write_chunk puts the leased writer back at the end
\* of the channel and returns exactly the inner writer's result, whether that
\* result is Ok or Err.
C3_WriteChunkReturnsInner ==
    [][\A t \in Threads :
          (pc[t] = "wc_called" /\ pc'[t] # "wc_called")
              => /\ pc'[t] = "idle"
                 /\ lastRet' = [op |-> "write_chunk", val |-> result[t]]
                 /\ channel' = Append(channel, held[t])
                 /\ held[t] \in Range(channel')]_vars

\* a write_chunk whose inner call failed has returned that error, and every
\* writer is back in the channel
C3_Witness ==
    /\ lastRet = [op |-> "write_chunk", val |-> Err("ChunkTooLarge")]
    /\ Len(channel) = NWriters
    /\ \A t \in Threads : pc[t] = "idle"

\* C4: a writer is leased to at most one caller at a time, is never in the
\* channel while leased, and so at most NWriters inner calls run at once.
C4_LeaseExclusive ==
    /\ \A t, u \in Threads : (t # u /\ held[t] # 0) => held[t] # held[u]
    /\ \A t \in Threads : held[t] # 0 => held[t] \notin Range(channel)
    /\ \A i, j \in 1..Len(channel) : i # j => channel[i] # channel[j]
    /\ \A t \in Threads :
          held[t] # 0 <=> pc[t] \in {"wc_leased", "wc_called", "fl_leased", "fl_called"}
    /\ Cardinality(Leased) <= NWriters

\* every writer is leased at once while one more caller waits on the channel
C4_Witness ==
    /\ Cardinality(Leased) = NWriters
    /\ channel = <<>>
    /\ \E t \in Threads : pc[t] \in {"wc_recv", "fl_recv"}

\* ------------------------------------------------------------------------
\* Properties of the sealed header
\* ------------------------------------------------------------------------
\* the last open_root was given the header as the last seal_root wrote it, by a
\* key source with the sealer's credentials and with the sealer's token answering
SameCredentials ==
    /\ opened.status # "none"
    /\ sealInfo.valid
    /\ opened.intact
    /\ opened.dev # 0
    /\ opened.dev = sealInfo.dev
    /\ keys[opened.opener].master_key = keys[sealInfo.sealer].master_key

\* C5: open_root of what seal_root wrote, by a key source made with the same
\* credentials and the same token, succeeds; the header it returns has the
\* sealed root_ptr, and its key source exposes the sealer's convergence key.
C5_HeaderRoundTrip ==
    SameCredentials =>
        /\ opened.status = "Ok"
        /\ opened.root_ptr = sealInfo.root_ptr
        /\ expose_convergence_key(opened.key)
             = expose_convergence_key(keys[sealInfo.sealer])

\* a header with a non-default root pointer was opened by the other key source,
\* whose own convergence key is not the one the header carries
C5_Witness ==
    /\ SameCredentials
    /\ opened.opener # sealInfo.sealer
    /\ opened.status = "Ok"
    /\ opened.root_ptr = Bytes(ROOT_PTR_SIZE, 7)
    /\ expose_convergence_key(opened.key)
         # expose_convergence_key(keys[opened.opener])

\* the last open_root returned no cleartext header
NothingOpened ==
    /\ opened.key = NoKeySource
    /\ opened.root_ptr = <<>>

\* C6: a seal_root or open_root whose device call fails returns Fatal and
\* produces or decrypts nothing; an open_root for which the device answers but
\* the password, the device or any bit of the sealed header is not the sealing
\* one returns AeadFailed; the two differ, and no failure returns a header.
C6_FatalOrAeadFailed ==
    /\ (lastSeal.calls > 0 /\ lastSeal.dev = 0)
          => (lastSeal.status = "Fatal" /\ ~lastSeal.produced)
    /\ (opened.status # "none" /\ opened.dev = 0)
          => (opened.status = "Fatal" /\ NothingOpened)
    /\ (opened.status # "none" /\ opened.dev # 0 /\ ~SameCredentials)
          => (opened.status = "AeadFailed" /\ NothingOpened)
    /\ (opened.status \notin {"none", "Ok"}) => NothingOpened
    /\ (lastSeal.status \notin {"none", "Ok"}) => ~lastSeal.produced

\* the stored challenge was altered, and open_root with the sealer's password
\* and token failed the AEAD verification
C6_Witness ==
    /\ opened.status = "AeadFailed"
    /\ NothingOpened
    /\ tampered >= HEADER_CYPHERTEXT + NONCE_SIZE
    /\ opened.dev = sealInfo.dev
    /\ opened.dev # 0
    /\ keys[opened.opener].master_key = keys[sealInfo.sealer].master_key

\* C7: the device has been called once for each seal_root and open_root that
\* reached the key derivation, and never by another operation of the key source
\* (the chunk operations reach the key source through chunk_key and its like).
C7_OneDeviceCallPerRoot ==
    deviceCalls = nSeal + nOpen - nEarly

\* a seal_root and an open_root have each called the device, the second call
\* failing
C7_Witness ==
    /\ nSeal = 1
    /\ nOpen = 1
    /\ nEarly = 0
    /\ deviceCalls = 2
    /\ opened.status = "Fatal"

\* ------------------------------------------------------------------------
\* Properties of the reader
\* ------------------------------------------------------------------------
\* the last read_chunk found its object, and a bit of that object or of the
\* pointer's tag had been flipped
TamperedRead ==
    /\ lastRead.done
    /\ ~lastRead.miss
    /\ (lastRead.objFlip # -1 \/ lastRead.tagFlip # -1)

\* C8: a read_chunk of a writer's pointer, after a bit of the persisted object
\* or of the pointer's tag was flipped, returns the error AeadFailed and no
\* plaintext.
C8_TamperedReadIsAeadFailed ==
    TamperedRead => (lastRead.status = "AeadFailed" /\ lastRead.out = <<>>)

\* C9: a read_chunk whose object the backend does not have returns a Backend
\* error, decrypts and decompresses nothing, and leaves the target as it was.
C9_BackendMiss ==
    (lastRead.done /\ lastRead.miss) =>
        /\ lastRead.status = "Backend"
        /\ lastRead.decrypts = 0
        /\ lastRead.decompresses = 0
        /\ target = lastRead.before
        /\ lastRead.out = <<>>

\* a persisted object was deleted and then read into a target that held data
C9_Witness ==
    /\ lastRead.done
    /\ lastRead.miss
    /\ ptrs[lastRead.object_id] # NoPtr
    /\ store[lastRead.object_id] = <<>>
    /\ lastRead.status = "Backend"
    /\ target = Bytes(2, 5)

\* ------------------------------------------------------------------------
\* Properties of the object
\* ------------------------------------------------------------------------
\* C10: from a new Object, after any write, read and seek calls, successful or
\* not, 0 <= cursor <= BLOCK_SIZE.
C10_CursorInBlock ==
    /\ 0 <= cursor
    /\ cursor <= BLOCK_SIZE

\* with the cursor at the end of the block, a call that would pass the end has
\* failed
C10_Witness ==
    /\ cursor = BLOCK_SIZE
    /\ objRes.op \in {"write", "seek"}
    /\ objRes.status \in {"panic", "InvalidInput"}

\* the position a seek asks for
SeekTarget(cur, pos) ==
    CASE pos.kind = "Start" -> pos.n
      [] pos.kind = "End" -> BLOCK_SIZE - pos.n
      [] OTHER -> cur + pos.n

\* C11: write(buf) with cursor + len(buf) <= BLOCK_SIZE copies buf to
\* [cursor, cursor+len), advances the cursor by len and returns len; a longer
\* buf gets an error value back and leaves buffer and cursor as they were.
C11_WriteFitsOrError ==
    \A buf \in WriteBufs :
        LET r == write(cursor, buffer, buf) IN
        IF cursor + Len(buf) <= BLOCK_SIZE
        THEN /\ r.status = "Ok"
             /\ r.n = Len(buf)
             /\ r.cursor = cursor + Len(buf)
             /\ r.buffer = CopyTo(buffer, cursor, buf)
        ELSE /\ r.status \notin {"Ok", "panic"}
             /\ r.cursor = cursor
             /\ r.buffer = buffer

\* C12: a seek of any of the three forms whose position is outside
\* [0, BLOCK_SIZE] returns InvalidInput and leaves the cursor unchanged.
C12_SeekOutOfRange ==
    \A pos \in SeekFrom, build \in Builds :
        LET r == seek(cursor, pos, build)
            p == SeekTarget(cursor, pos)
        IN (p < 0 \/ p > BLOCK_SIZE) =>
               (r.status = "InvalidInput" /\ r.cursor = cursor)

\* C13: finalize overwrites exactly [cursor, BLOCK_SIZE) with random bytes and
\* leaves [0, cursor), the cursor and the id unchanged; with the cursor at
\* BLOCK_SIZE it changes nothing.
C13_FinalizeTail ==
    [][objRes'.op = "finalize" =>
          /\ cursor' = cursor
          /\ objId' = objId
          /\ Len(buffer') = BLOCK_SIZE
          /\ \A i \in 1..BLOCK_SIZE :
                IF i <= cursor THEN buffer'[i] = buffer[i]
                ELSE buffer'[i] \in RandomBytes
          /\ (cursor = BLOCK_SIZE => buffer' = buffer)]_vars

\* a block with data before the cursor and a random tail after it
C13_Witness ==
    /\ objRes.op = "finalize"
    /\ cursor > 0
    /\ cursor < BLOCK_SIZE
    /\ \A i \in 1..cursor : buffer[i] \in Data
    /\ \A i \in (cursor + 1)..BLOCK_SIZE : buffer[i] \in RandomBytes

\* C18: Start(s) with 0 <= s <= BLOCK_SIZE sets the cursor to s, End(e) with
\* 0 <= e <= BLOCK_SIZE to BLOCK_SIZE - e (a negative e is InvalidInput),
\* Current(c) with 0 <= cursor + c <= BLOCK_SIZE to cursor + c; a successful
\* seek returns the new cursor.
C18_SeekInRange ==
    \A pos \in SeekFrom, build \in Builds :
        LET r == seek(cursor, pos, build)
            p == SeekTarget(cursor, pos)
        IN /\ (0 <= p /\ p <= BLOCK_SIZE) =>
                 (r.status = "Ok" /\ r.cursor = p /\ r.n = p)
           /\ (pos.kind = "End" /\ pos.n < 0) => r.status = "InvalidInput"
           /\ r.status = "Ok" => r.n = r.cursor

\* a seek from the end has put the cursor inside the block
C18_Witness ==
    /\ objRes.op = "seek"
    /\ objRes.status = "Ok"
    /\ objRes.n = cursor
    /\ cursor = BLOCK_SIZE - 1

\* C19: read(buf) past the end of the buffer returns UnexpectedEof, copies
\* nothing and leaves the cursor; otherwise it copies [cursor, cursor+len),
\* advances the cursor by len and returns len; buffer and id stay as they are.
C19_ReadAllOrNothing ==
    /\ [](\A n \in 0..(BLOCK_SIZE + 1) :
            LET r == read(cursor, buffer, n) IN
            IF cursor + n > Len(buffer)
            THEN r.status = "UnexpectedEof" /\ r.out = <<>> /\ r.cursor = cursor
            ELSE /\ r.status = "Ok"
                 /\ r.n = n
                 /\ r.cursor = cursor + n
                 /\ r.out = [i \in 1..n |-> buffer[cursor + i]])
    /\ [][objRes'.op = "read" => (buffer' = buffer /\ objId' = objId)]_vars

\* a read that asked for more than is left was refused with the cursor inside
\* the block
C19_Witness ==
    /\ objRes.op = "read"
    /\ objRes.status = "UnexpectedEof"
    /\ cursor > 0
    /\ cursor < BLOCK_SIZE

\* C20: for a buf that fits at the cursor c, write(buf), seek(Start(c)) and a
\* read of len(buf) bytes return buf and leave the cursor at c + len(buf); the
\* bytes outside [c, c+len) are as before the write.
C20_WriteSeekRead ==
    \A buf \in WriteBufs, build \in Builds :
        cursor + Len(buf) <= BLOCK_SIZE =>
            LET w == write(cursor, buffer, buf)
                k == seek(w.cursor, [kind |-> "Start", n |-> cursor], build)
                r == read(k.cursor, w.buffer, Len(buf))
            IN /\ w.status = "Ok"
               /\ k.status = "Ok"
               /\ r.status = "Ok"
               /\ r.out = buf
               /\ r.cursor = cursor + Len(buf)
               /\ \A i \in 1..BLOCK_SIZE :
                     (i <= cursor \/ i > cursor + Len(buf))
                         => w.buffer[i] = buffer[i]

\* two different bytes written at the end of the block have been read back
C20_Witness ==
    /\ objRes.op = "read"
    /\ objRes.status = "Ok"
    /\ objRes.out = <<1, 2>>
    /\ cursor = BLOCK_SIZE
    /\ buffer[BLOCK_SIZE] = 2

\* the cleartext payload of a header: root pointer, mode byte, convergence key,
\* zeros up to the end of the payload
PayloadOf(root_ptr, mode, convergence_key) ==
    root_ptr \o <<mode>> \o convergence_key
        \o Bytes(HEADER_PAYLOAD - ROOT_PTR_SIZE - 1 - KEY_SIZE, 0)

\* C14: with HC = 512 - 12 - 64 and HP = HC - 16, seal writes the encrypted
\* payload to [0, HP), the tag to [HP, HP+16), the nonce to [HC, HC+12) and the
\* challenge to [HC+12, 512); the regions are disjoint and cover the header,
\* the 88 + 1 + 32 payload bytes fit in [0, HP), and open reads nonce,
\* challenge and cyphertext with tag from where seal wrote them.
C14_HeaderLayout ==
    /\ HEADER_CYPHERTEXT = 512 - 12 - 64
    /\ HEADER_PAYLOAD = HEADER_CYPHERTEXT - 16
    /\ 0 < HEADER_PAYLOAD
    /\ HEADER_PAYLOAD + TAG_SIZE = HEADER_CYPHERTEXT
    /\ HEADER_CYPHERTEXT + NONCE_SIZE + CHALLENGE_SIZE = HEADER_SIZE
    /\ ROOT_PTR_SIZE + 1 + KEY_SIZE <= HEADER_PAYLOAD
    /\ (sealInfo.valid /\ tampered = -1) =>
          /\ Len(sealed) = HEADER_SIZE
          /\ \E i \in 1..Len(aead) :
                /\ aead[i].text = PayloadOf(sealInfo.root_ptr, ModeSymmetric,
                                    expose_convergence_key(keys[sealInfo.sealer]))
                /\ Slice(sealed, 0, HEADER_PAYLOAD) = Cypher(i, aead[i].text)
                /\ Slice(sealed, HEADER_PAYLOAD, HEADER_PAYLOAD + 16) = Tag(i)
                /\ Slice(sealed, HEADER_CYPHERTEXT, HEADER_CYPHERTEXT + 12)
                     = aead[i].nonce
                /\ Slice(sealed, HEADER_CYPHERTEXT + 12, 512)
                     = aead[i].key.resp.challenge
          /\ LET o == open_header(aead, keys[sealInfo.sealer].master_key, sealed,
                                  sealInfo.dev)
             IN o.status = "Ok" /\ o.root_ptr = sealInfo.root_ptr

\* a header that was sealed twice over, the second sealing at rest unaltered
C14_Witness ==
    /\ sealInfo.valid
    /\ tampered = -1
    /\ Len(aead) = 2
    /\ Len(sealed) = HEADER_SIZE
    /\ sealInfo.root_ptr = Bytes(ROOT_PTR_SIZE, 7)

\* ------------------------------------------------------------------------
\* Properties of the balancer: flush alone, liveness, round robin
\* ------------------------------------------------------------------------
\* C15: a flush that runs with no other call in progress, with no inner flush
\* failing (so no writer dropped), calls flush once on each of the N writers,
\* returns Ok and leaves the channel in the order it had at the call.
C15_FlushAloneOncePerWriter ==
    (flushLog.by # 0 /\ dropped = {}) =>
        /\ Len(flushLog.done) <= NWriters
        /\ \A i, j \in 1..Len(flushLog.done) :
              i # j => flushLog.done[i] # flushLog.done[j]
        /\ (pc[flushLog.by] = "fl_recv" /\ iter[flushLog.by] = NWriters) =>
              /\ Range(flushLog.done) = Writers
              /\ channel = flushLog.order
        /\ (\A t \in Threads : pc[t] = "idle") =>
              /\ lastRet = [op |-> "flush", val |-> Ok(Unit)]
              /\ Range(flushLog.done) = Writers
              /\ channel = flushLog.order

\* after a write_chunk had turned the channel, a flush ran alone and returned
\* Ok
C15_Witness ==
    /\ flushLog.by # 0
    /\ dropped = {}
    /\ \A t \in Threads : pc[t] = "idle"
    /\ lastRet = [op |-> "flush", val |-> Ok(Unit)]
    /\ Len(flushLog.done) = NWriters
    /\ flushLog.order # [i \in 1..NWriters |-> i]
    /\ channel = flushLog.order

\* C16: under fair scheduling, with every inner call terminating, every
\* write_chunk and every flush that was invoked eventually returns.
C16_EveryCallReturns ==
    \A t \in Threads : (pc[t] # "idle") ~> (pc[t] = "idle")

\* C17: with write_chunk calls issued one after another, the k-th call
\* (k = 0, 1, ...) is served by writer k mod N of the initial channel order,
\* whatever the earlier inner calls returned.
C17_RoundRobin ==
    [][\A t \in Threads :
          (inTurn /\ pc[t] = "wc_recv" /\ pc'[t] = "wc_leased")
              => held'[t] = ((nCalls - 1) % NWriters) + 1]_vars

\* after a failed call the order has come round to the first writer again
C17_Witness ==
    \E t \in Threads :
        /\ inTurn
        /\ pc[t] = "wc_leased"
        /\ nCalls = NWriters + 1
        /\ held[t] = 1
        /\ lastRet.op = "write_chunk"
        /\ ~lastRet.val.ok

====
